---- MODULE Spec2Model ----
(***************************************************************************)
(* Quiz Battle (multi-player trivia quiz): the session state machine of    *)
(* src/script.js (tiered timer, answer history), src/script1.js and        *)
(* src/script9.js (hard-only timer).  Every JavaScript function that       *)
(* changes state is an operator from a state record to a state record;     *)
(* every event handler is one action that applies the whole handler.       *)
(***************************************************************************)
EXTENDS Integers, Sequences, FiniteSets, TLC

VARIABLES
    variant,            \* which of the three scripts the page runs
    fetching,           \* the fetch of loadQuestions is under way
    section,            \* the one .section that is not hidden ("loading" before the handlers exist)
    backupQuestions,    \* question store; the pool once a game has started
    playerNames,
    scores,
    currentPlayer,
    currentQuestion,
    chosenDifficulty,
    answersLog,         \* script.js only
    questionTimerId,    \* questionTimerId / hardModeTimerId; Null when no interval is held
    questionTimeLeft,   \* questionTimeLeft / hardModeTimeLeft
    intervals,          \* the browser's table of live setInterval ids
    nextIntervalId,     \* the id the next setInterval call returns
    timerText,          \* #timer text: <<>> for no text, <<n>> for "n s"
    scoreboard,         \* #scoreboard lines
    turnsEnded,         \* history: calls of nextTurn since the game was started
    ticks,              \* history: firings of the interval last started
    timedOut            \* history: turns of the game that the countdown ended

vars == <<variant, fetching, section, backupQuestions, playerNames, scores, currentPlayer,
          currentQuestion, chosenDifficulty, answersLog, questionTimerId,
          questionTimeLeft, intervals, nextIntervalId, timerText, scoreboard,
          turnsEnded, ticks, timedOut>>

-----------------------------------------------------------------------------
(* Bounds of the model *)

\* the add-player handler is offered until this many players are listed
MaxPlayers == 2

\* the longest fetched question set of PoolSpec
MaxStore == 3

(* Program constants *)

EASY_MODE_TIMER_SECONDS == 10
HARD_MODE_TIMER_SECONDS == 15
HARD_MODE_TIMER_SECONDS_9 == 12

Variants == {"script", "script1", "script9"}

\* JavaScript null, as held by the timer id
Null == 0

-----------------------------------------------------------------------------
(* JavaScript values of the fetched JSON and of the difficulty tag *)

Str(s) == [type |-> "string", val |-> s]
Undefined == [type |-> "undefined", val |-> ""]

\* !v for the values a difficulty tag can hold
Falsy(v) == v.type \in {"undefined", "null"} \/ (v.type = "string" /\ v.val = "")

\* v === "<s>"
IsStr(v, s) == v.type = "string" /\ v.val = s

Question(q, opts, a, d) ==
    [questionItem |-> q, options |-> opts, answer |-> a, difficulty |-> d]

\* the built-in questions; prompts abbreviated to B1..B5, options as in the source
BuiltInQuestions ==
    << Question("B1", <<"Druk Green Power Corporation", "Bhutan Power Corporation",
                        "Hydro Bhutan", "Royal Energy Agency">>,
                "Druk Green Power Corporation", Str("easy")),
       Question("B2", <<"Tshechu", "Losar", "Thruebab", "Neykor">>,
                "Tshechu", Str("easy")),
       Question("B3", <<"Jigme Singye Wangchuck", "Jigme Dorji Wangchuck",
                        "Ugyen Wangchuck", "Jigme Khesar Namgyel Wangchuck">>,
                "Jigme Singye Wangchuck", Str("easy")),
       Question("B4", <<"High Value, Low Volume Tourism", "Free Tourism",
                        "Visa-Free Policy", "Mass Tourism">>,
                "High Value, Low Volume Tourism", Str("hard")),
       Question("B5", <<"2008", "2005", "2010", "2013">>,
                "2008", Str("hard")) >>

-----------------------------------------------------------------------------
(* Question loading: loadQuestions, validateQuestions *)

Arr(xs) == [type |-> "array", val |-> xs]
Obj == [type |-> "object", val |-> ""]

\* one entry of the fetched array, every field a JavaScript value
Entry(q, opts, a, d) ==
    [questionItem |-> q, options |-> opts, answer |-> a, difficulty |-> d]

\* what fetch(url) and response.json() can produce
FetchResponses ==
    << [kind |-> "network_error", data |-> Undefined],
       [kind |-> "not_ok", data |-> Undefined],
       [kind |-> "bad_json", data |-> Undefined],
       [kind |-> "json", data |-> Obj],
       [kind |-> "json", data |-> Arr(<< >>)],
       \* one untagged question
       [kind |-> "json", data |-> Arr(<<
            Entry(Str("Q1"), Arr(<<"X", "Y">>), Str("X"), Undefined) >>)],
       \* an empty tag, and a hard question whose answer is not an option
       [kind |-> "json", data |-> Arr(<<
            Entry(Str("Q1"), Arr(<<"X", "Y">>), Str("X"), Str("")),
            Entry(Str("Q2"), Arr(<<"Y", "Z">>), Str("X"), Str("hard")) >>)],
       \* a tag that is neither easy nor hard
       [kind |-> "json", data |-> Arr(<<
            Entry(Str("Q3"), Arr(<<"X", "Y">>), Str("Y"), Str("medium")) >>)],
       \* a well-formed entry followed by one without an answer
       [kind |-> "json", data |-> Arr(<<
            Entry(Str("Q1"), Arr(<<"X", "Y">>), Str("X"), Str("easy")),
            Entry(Str("Q2"), Arr(<<"X", "Y">>), Undefined, Str("easy")) >>)],
       \* an entry whose options are not an array
       [kind |-> "json", data |-> Arr(<<
            Entry(Str("Q1"), Str("X"), Str("X"), Str("hard")) >>)],
       \* an entry whose prompt is missing
       [kind |-> "json", data |-> Arr(<<
            Entry(Undefined, Arr(<<"X", "Y">>), Str("X"), Undefined) >>)] >>

\* the test of validateQuestions on one entry
InvalidEntry(e) ==
    \/ e.questionItem.type # "string"
    \/ e.options.type # "array"
    \/ e.answer.type # "string"

\* a validation that stops after the first entry
validateQuestionsThrows_FirstOnly(data) == InvalidEntry(data[1])

\* TRUE when validateQuestions(data) throws
validateQuestionsThrows(data) ==
    \E i \in DOMAIN data : InvalidEntry(data[i])

\* { ...questionItem, difficulty: questionItem.difficulty || undefined }
MapEntry(e) ==
    Question(e.questionItem.val, e.options.val, e.answer.val,
             IF Falsy(e.difficulty) THEN Undefined ELSE e.difficulty)

\* loadQuestions that adds the fetched questions to the built-in ones
loadQuestions_Appends(store, resp) ==
    IF resp.kind # "json"
    THEN store
    ELSE IF ~(resp.data.type = "array" /\ Len(resp.data.val) > 0)
    THEN store
    ELSE IF validateQuestionsThrows(resp.data.val)
    THEN store
    ELSE store \o [i \in DOMAIN resp.data.val |-> MapEntry(resp.data.val[i])]

\* loadQuestions without the test of data.length
loadQuestions_AcceptsEmpty(store, resp) ==
    IF resp.kind # "json"
    THEN store
    ELSE IF resp.data.type # "array"
    THEN store
    ELSE IF validateQuestionsThrows(resp.data.val)
    THEN store
    ELSE [i \in DOMAIN resp.data.val |-> MapEntry(resp.data.val[i])]

\* the store loadQuestions leaves behind, given the store before and the response
loadQuestions(store, resp) ==
    IF resp.kind # "json"
    THEN store
    ELSE IF ~(resp.data.type = "array" /\ Len(resp.data.val) > 0)
    THEN store
    ELSE IF validateQuestionsThrows(resp.data.val)
    THEN store
    ELSE [i \in DOMAIN resp.data.val |-> MapEntry(resp.data.val[i])]

-----------------------------------------------------------------------------
(* The session as one record, so that a function of the script is an       *)
(* operator from the state before the call to the state after it.          *)

G == [variant |-> variant, fetching |-> fetching, section |-> section,
      backupQuestions |-> backupQuestions, playerNames |-> playerNames,
      scores |-> scores, currentPlayer |-> currentPlayer,
      currentQuestion |-> currentQuestion, chosenDifficulty |-> chosenDifficulty,
      answersLog |-> answersLog, questionTimerId |-> questionTimerId,
      questionTimeLeft |-> questionTimeLeft, intervals |-> intervals,
      nextIntervalId |-> nextIntervalId, timerText |-> timerText,
      scoreboard |-> scoreboard, turnsEnded |-> turnsEnded, ticks |-> ticks,
      timedOut |-> timedOut]

\* the handler ran from G and left s
Becomes(s) ==
    /\ variant' = s.variant
    /\ fetching' = s.fetching
    /\ section' = s.section
    /\ backupQuestions' = s.backupQuestions
    /\ playerNames' = s.playerNames
    /\ scores' = s.scores
    /\ currentPlayer' = s.currentPlayer
    /\ currentQuestion' = s.currentQuestion
    /\ chosenDifficulty' = s.chosenDifficulty
    /\ answersLog' = s.answersLog
    /\ questionTimerId' = s.questionTimerId
    /\ questionTimeLeft' = s.questionTimeLeft
    /\ intervals' = s.intervals
    /\ nextIntervalId' = s.nextIntervalId
    /\ timerText' = s.timerText
    /\ scoreboard' = s.scoreboard
    /\ turnsEnded' = s.turnsEnded
    /\ ticks' = s.ticks
    /\ timedOut' = s.timedOut

\* new Array(n).fill(0)
ZeroScores(n) == [i \in 1..n |-> 0]

\* setSection(name): every .section hidden, then the named one shown
setSection(s, name) == [s EXCEPT !.section = name]

-----------------------------------------------------------------------------
(* Timer: startTimer, clearTimer *)

\* the seconds a countdown starts from (script.js: by difficulty; the others: the hard constant)
TimerSeconds(v, difficulty) ==
    CASE v = "script"  -> IF difficulty = "hard" THEN HARD_MODE_TIMER_SECONDS
                                                 ELSE EASY_MODE_TIMER_SECONDS
      [] v = "script1" -> HARD_MODE_TIMER_SECONDS
      [] v = "script9" -> HARD_MODE_TIMER_SECONDS_9

\* a hard-only script that starts its countdown in easy games too
TimerStarts_Always(v, difficulty) == TRUE

\* whether renderQuestion starts a countdown at all
TimerStarts(v, difficulty) == v = "script" \/ difficulty = "hard"

clearTimer(s) ==
    IF s.questionTimerId # Null
    THEN [s EXCEPT !.intervals = @ \ {s.questionTimerId},
                   !.questionTimerId = Null]
    ELSE s

\* setInterval registers a new interval and returns its id
startTimer(s, totalSeconds) ==
    [s EXCEPT !.questionTimeLeft = totalSeconds,
              !.timerText = <<totalSeconds>>,
              !.questionTimerId = s.nextIntervalId,
              !.intervals = @ \cup {s.nextIntervalId},
              !.nextIntervalId = @ + 1,
              !.ticks = 0]

-----------------------------------------------------------------------------
(* Quiz flow: renderScores, endGame, renderQuestion, nextTurn, onAnswer *)

\* a line that says "point" for a score of 0 as well
ScoreLine_ZeroSingular(name, score) ==
    [name |-> name, score |-> score,
     word |-> IF score <= 1 THEN "point" ELSE "points"]

ScoreLine(name, score) ==
    [name |-> name, score |-> score,
     word |-> IF score = 1 THEN "point" ELSE "points"]

renderScores(s) ==
    [s EXCEPT !.scoreboard =
        [i \in 1..Len(s.playerNames) |-> ScoreLine(s.playerNames[i], s.scores[i])]]

\* endGame that leaves the interval running
endGame_KeepsTimer(s) == renderScores(setSection(s, "results"))

endGame(s) == renderScores(setSection(clearTimer(s), "results"))

\* renderQuestion that lets a countdown that is still running run on
renderQuestion_KeepsRunning(s) ==
    IF s.currentQuestion >= Len(s.backupQuestions)
    THEN endGame(s)
    ELSE IF s.questionTimerId # Null
         THEN s
         ELSE IF TimerStarts(s.variant, s.chosenDifficulty)
              THEN startTimer(s, TimerSeconds(s.variant, s.chosenDifficulty))
              ELSE [s EXCEPT !.timerText = << >>]

\* renderQuestion that starts the new countdown without cancelling the old one
renderQuestion_NoClear(s) ==
    IF s.currentQuestion >= Len(s.backupQuestions)
    THEN endGame(s)
    ELSE IF TimerStarts(s.variant, s.chosenDifficulty)
         THEN startTimer(s, TimerSeconds(s.variant, s.chosenDifficulty))
         ELSE [s EXCEPT !.timerText = << >>]

renderQuestion(s) ==
    IF s.currentQuestion >= Len(s.backupQuestions)
    THEN endGame(s)
    ELSE LET c == clearTimer(s) IN
         IF TimerStarts(s.variant, s.chosenDifficulty)
         THEN startTimer(c, TimerSeconds(s.variant, s.chosenDifficulty))
         ELSE [c EXCEPT !.timerText = << >>]

\* nextTurn that wraps one player too late
nextTurn_NoWrap(s) ==
    LET inc == [s EXCEPT !.currentPlayer = @ + 1, !.turnsEnded = @ + 1]
        adv == IF inc.currentPlayer > Len(inc.playerNames)
               THEN [inc EXCEPT !.currentPlayer = 0, !.currentQuestion = @ + 1]
               ELSE inc
    IN  IF adv.currentQuestion >= Len(adv.backupQuestions)
        THEN endGame(adv)
        ELSE renderQuestion(adv)

\* nextTurn that wraps one player too early
nextTurn_SkipsLastPlayer(s) ==
    LET inc == [s EXCEPT !.currentPlayer = @ + 1, !.turnsEnded = @ + 1]
        adv == IF inc.currentPlayer >= Len(inc.playerNames) - 1
               THEN [inc EXCEPT !.currentPlayer = 0, !.currentQuestion = @ + 1]
               ELSE inc
    IN  IF adv.currentQuestion >= Len(adv.backupQuestions)
        THEN endGame(adv)
        ELSE renderQuestion(adv)

\* nextTurn that moves to the next question on every turn
nextTurn_QuestionEveryTurn(s) ==
    LET inc == [s EXCEPT !.currentPlayer = @ + 1, !.turnsEnded = @ + 1,
                         !.currentQuestion = @ + 1]
        adv == IF inc.currentPlayer >= Len(inc.playerNames)
               THEN [inc EXCEPT !.currentPlayer = 0]
               ELSE inc
    IN  IF adv.currentQuestion >= Len(adv.backupQuestions)
        THEN endGame(adv)
        ELSE renderQuestion(adv)

\* nextTurn that ends the game when the last question is reached, not passed
nextTurn_EndsEarly(s) ==
    LET inc == [s EXCEPT !.currentPlayer = @ + 1, !.turnsEnded = @ + 1]
        adv == IF inc.currentPlayer >= Len(inc.playerNames)
               THEN [inc EXCEPT !.currentPlayer = 0, !.currentQuestion = @ + 1]
               ELSE inc
    IN  IF adv.currentQuestion + 1 >= Len(adv.backupQuestions)
        THEN endGame(adv)
        ELSE renderQuestion(adv)

nextTurn(s) ==
    LET inc == [s EXCEPT !.currentPlayer = @ + 1, !.turnsEnded = @ + 1]
        adv == IF inc.currentPlayer >= Len(inc.playerNames)
               THEN [inc EXCEPT !.currentPlayer = 0, !.currentQuestion = @ + 1]
               ELSE inc
    IN  IF adv.currentQuestion >= Len(adv.backupQuestions)
        THEN endGame(adv)
        ELSE renderQuestion(adv)

\* an entry that names the player who is up next
LogEntry_NextPlayer(s, selected) ==
    LET questionObject == s.backupQuestions[s.currentQuestion + 1]
        next == (s.currentPlayer + 1) % Len(s.playerNames)
    IN  [playerIndex |-> next,
         playerName |-> s.playerNames[next + 1],
         questionNumber |-> s.currentQuestion + 1,
         question |-> questionObject.questionItem,
         selectedAnswer |-> selected,
         correctAnswer |-> questionObject.answer,
         isCorrect |-> (selected = questionObject.answer)]

\* the entry onAnswer pushes (its options field is left out)
LogEntry(s, selected) ==
    LET questionObject == s.backupQuestions[s.currentQuestion + 1] IN
    [playerIndex |-> s.currentPlayer,
     playerName |-> s.playerNames[s.currentPlayer + 1],
     questionNumber |-> s.currentQuestion + 1,
     question |-> questionObject.questionItem,
     selectedAnswer |-> selected,
     correctAnswer |-> questionObject.answer,
     isCorrect |-> (selected = questionObject.answer)]

\* the point goes to the first player, whoever answered
Score_FirstPlayer(s, selected) ==
    IF selected = s.backupQuestions[s.currentQuestion + 1].answer
    THEN [s EXCEPT !.scores[1] = @ + 1]
    ELSE s

\* scores[currentPlayer]++ when the answer is right
Score(s, selected) ==
    IF selected = s.backupQuestions[s.currentQuestion + 1].answer
    THEN [s EXCEPT !.scores[s.currentPlayer + 1] = @ + 1]
    ELSE s

\* onAnswer that moves to the next turn before it counts the point
onAnswer_ScoresAfterTurn(s, selected) ==
    IF s.currentQuestion >= Len(s.backupQuestions)
    THEN s
    ELSE LET logged == IF s.variant = "script"
                       THEN [s EXCEPT !.answersLog = Append(@, LogEntry(s, selected))]
                       ELSE s
             turned == nextTurn(logged)
         IN  IF selected = s.backupQuestions[s.currentQuestion + 1].answer
             THEN [turned EXCEPT !.scores[turned.currentPlayer + 1] = @ + 1]
             ELSE turned

\* reading .answer of a question that does not exist throws before any assignment
onAnswer(s, selected) ==
    IF s.currentQuestion >= Len(s.backupQuestions)
    THEN s
    ELSE LET logged == IF s.variant = "script"
                       THEN [s EXCEPT !.answersLog = Append(@, LogEntry(s, selected))]
                       ELSE s
         IN  nextTurn(Score(logged, selected))

\* a callback that counts an expiry as a point
timerCallback_Scores(s) ==
    LET dec == [s EXCEPT !.questionTimeLeft = @ - 1, !.ticks = @ + 1] IN
    IF dec.questionTimeLeft <= 0
    THEN nextTurn(clearTimer([dec EXCEPT !.scores[s.currentPlayer + 1] = @ + 1,
                                         !.timedOut = @ + 1]))
    ELSE [dec EXCEPT !.timerText = <<dec.questionTimeLeft>>]

\* a callback that lets the countdown show 0 for a second
timerCallback_OneLate(s) ==
    LET dec == [s EXCEPT !.questionTimeLeft = @ - 1, !.ticks = @ + 1] IN
    IF dec.questionTimeLeft < 0
    THEN nextTurn(clearTimer([dec EXCEPT !.timedOut = @ + 1]))
    ELSE [dec EXCEPT !.timerText = <<dec.questionTimeLeft>>]

\* a callback that stops the countdown at 0 and leaves the turn open
timerCallback_NoAdvance(s) ==
    LET dec == [s EXCEPT !.questionTimeLeft = @ - 1, !.ticks = @ + 1] IN
    IF dec.questionTimeLeft <= 0
    THEN clearTimer([dec EXCEPT !.timedOut = @ + 1])
    ELSE [dec EXCEPT !.timerText = <<dec.questionTimeLeft>>]

\* a callback that writes the seconds left before it tests them
timerCallback_ShowsZero(s) ==
    LET dec == [s EXCEPT !.questionTimeLeft = @ - 1, !.ticks = @ + 1,
                         !.timerText = <<s.questionTimeLeft - 1>>] IN
    IF dec.questionTimeLeft <= 0
    THEN nextTurn(clearTimer([dec EXCEPT !.timedOut = @ + 1]))
    ELSE dec

\* the function handed to setInterval
timerCallback(s) ==
    LET dec == [s EXCEPT !.questionTimeLeft = @ - 1, !.ticks = @ + 1] IN
    IF dec.questionTimeLeft <= 0
    THEN nextTurn(clearTimer([dec EXCEPT !.timedOut = @ + 1]))
    ELSE [dec EXCEPT !.timerText = <<dec.questionTimeLeft>>]

-----------------------------------------------------------------------------
(* Player management: addPlayerFromInput, removePlayerAt *)

\* a typed name is a sequence of characters
Whitespace == {" "}

RECURSIVE trimStart(_)
trimStart(str) ==
    IF str # << >> /\ Head(str) \in Whitespace THEN trimStart(Tail(str)) ELSE str

RECURSIVE trimEnd(_)
trimEnd(str) ==
    IF str # << >> /\ str[Len(str)] \in Whitespace
    THEN trimEnd(SubSeq(str, 1, Len(str) - 1))
    ELSE str

\* String.prototype.trim
trim(str) == trimEnd(trimStart(str))

\* the names the model's user goes by
Alphabet == <<"A", "B", "C", "D">>

\* a name as typed: every second one with a blank before and after it
Typed(k) == IF k % 2 = 0 THEN <<" ", Alphabet[k], " ">> ELSE <<Alphabet[k]>>

\* what the user may have typed into #playerNameInput
RawInputs == { << >>, <<" ">> } \cup { Typed(k) : k \in 1..MaxPlayers }

\* the place of a name in Alphabet
Rank(name) == CHOOSE k \in DOMAIN Alphabet : Alphabet[k] = name[1]

\* the model's user enters the players in alphabetical order, none twice
\* (the scripts never compare names)
EntersInOrder(names, name) ==
    IF names = << >> THEN TRUE ELSE Rank(names[Len(names)]) < Rank(name)

\* addPlayerFromInput that tests the name as typed
addPlayerFromInput_NoTrim(s, value) ==
    IF value = << >>
    THEN s
    ELSE LET names == Append(s.playerNames, value) IN
         [s EXCEPT !.playerNames = names, !.scores = ZeroScores(Len(names))]

\* an empty name is refused (only the message changes)
addPlayerFromInput(s, value) ==
    LET name == trim(value) IN
    IF name = << >>
    THEN s
    ELSE LET names == Append(s.playerNames, name) IN
         [s EXCEPT !.playerNames = names, !.scores = ZeroScores(Len(names))]

\* a splice that takes the last entry whatever the index (playerNames.pop())
splice1_Last(arr, index) == SubSeq(arr, 1, Len(arr) - 1)

\* playerNames.splice(index, 1), index counted from 0
splice1(arr, index) ==
    [i \in 1..(Len(arr) - 1) |-> IF i <= index THEN arr[i] ELSE arr[i + 1]]

\* removePlayerAt that keeps the old scores array
removePlayerAt_KeepsScores(s, index) ==
    [s EXCEPT !.playerNames = splice1(s.playerNames, index)]

removePlayerAt(s, index) ==
    LET names == splice1(s.playerNames, index) IN
    [s EXCEPT !.playerNames = names, !.scores = ZeroScores(Len(names))]

-----------------------------------------------------------------------------
(* Difficulty and question pool: applyDifficultyFilter, shuffleArray *)

\* an easy filter that wants the tag
EasyOrUntagged_TaggedOnly(questionItem) == IsStr(questionItem.difficulty, "easy")

EasyOrUntagged(questionItem) ==
    Falsy(questionItem.difficulty) \/ IsStr(questionItem.difficulty, "easy")

HardTagged(questionItem) == IsStr(questionItem.difficulty, "hard")

\* the filter without the revert to the full store
filteredPool_NoFallback(store, difficulty) ==
    IF difficulty = "easy"
    THEN SelectSeq(store, EasyOrUntagged)
    ELSE LET hardOnly == SelectSeq(store, HardTagged) IN
         IF Len(hardOnly) > 0 THEN hardOnly ELSE store

\* the pool before it is shuffled
filteredPool(store, difficulty) ==
    LET pool == IF difficulty = "easy"
                THEN SelectSeq(store, EasyOrUntagged)
                ELSE LET hardOnly == SelectSeq(store, HardTagged) IN
                     IF Len(hardOnly) > 0 THEN hardOnly ELSE store
    IN  IF Len(pool) = 0 THEN store ELSE pool

\* the values Math.floor(Math.random() * (i + 1)) can take, for every i of the loop
RandomChoices(n) == { js \in [1..(n - 1) -> 0..(n - 1)] : \A i \in 1..(n - 1) : js[i] <= i }

\* arr[i] = arr[j] without the assignment back
swap_Overwrites(arr, i, j) == [arr EXCEPT ![i + 1] = arr[j + 1]]

\* [arr[i], arr[j]] = [arr[j], arr[i]], i and j counted from 0
swap(arr, i, j) == [arr EXCEPT ![i + 1] = arr[j + 1], ![j + 1] = arr[i + 1]]

RECURSIVE shuffleFrom(_, _, _)
shuffleFrom(arr, i, js) ==
    IF i > 0 THEN shuffleFrom(swap(arr, i, js[i]), i - 1, js) ELSE arr

\* Fisher-Yates with the random draws js
shuffleArray(arr, js) == shuffleFrom(arr, Len(arr) - 1, js)

applyDifficultyFilter(s, js) ==
    [s EXCEPT !.backupQuestions =
                  shuffleArray(filteredPool(s.backupQuestions, s.chosenDifficulty), js),
              !.currentQuestion = 0,
              !.currentPlayer = 0,
              !.scores = ZeroScores(Len(s.playerNames))]

showQuiz(s) == renderQuestion(setSection(s, "quiz"))

-----------------------------------------------------------------------------
(* The page: state after the script is evaluated, and the event handlers.  *)
(* A control can be used only while its section is the one shown.          *)

\* the initial value of the time-left variable
InitialTimeLeft(v) ==
    CASE v = "script"  -> 0
      [] v = "script1" -> HARD_MODE_TIMER_SECONDS
      [] v = "script9" -> HARD_MODE_TIMER_SECONDS_9

PageState(v) ==
    [variant |-> v, fetching |-> TRUE, section |-> "loading",
     backupQuestions |-> BuiltInQuestions, playerNames |-> << >>,
     scores |-> << >>, currentPlayer |-> 0, currentQuestion |-> 0,
     chosenDifficulty |-> "easy", answersLog |-> << >>,
     questionTimerId |-> Null, questionTimeLeft |-> InitialTimeLeft(v),
     intervals |-> {}, nextIntervalId |-> 1, timerText |-> << >>,
     scoreboard |-> << >>, turnsEnded |-> 0, ticks |-> 0, timedOut |-> 0]

Init ==
    \E v \in Variants :
        LET s == PageState(v) IN
        /\ variant = s.variant
        /\ fetching = s.fetching
        /\ section = s.section
        /\ backupQuestions = s.backupQuestions
        /\ playerNames = s.playerNames
        /\ scores = s.scores
        /\ currentPlayer = s.currentPlayer
        /\ currentQuestion = s.currentQuestion
        /\ chosenDifficulty = s.chosenDifficulty
        /\ answersLog = s.answersLog
        /\ questionTimerId = s.questionTimerId
        /\ questionTimeLeft = s.questionTimeLeft
        /\ intervals = s.intervals
        /\ nextIntervalId = s.nextIntervalId
        /\ timerText = s.timerText
        /\ scoreboard = s.scoreboard
        /\ turnsEnded = s.turnsEnded
        /\ ticks = s.ticks
        /\ timedOut = s.timedOut

\* DOMContentLoaded: await loadQuestions(), then show the name step and register the
\* handlers (script9.js leaves the name step to the page's markup); the setup
\* elements are taken to exist
\* a handler that does not await loadQuestions: the name step is shown and the
\* handlers are registered at once, and the fetch settles later
pageLoaded_NotAwaited(s, resp) ==
    IF s.section = "loading"
    THEN setSection(s, "setup-names")
    ELSE [s EXCEPT !.backupQuestions = loadQuestions(@, resp), !.fetching = FALSE]

\* the handler from the moment the awaited loadQuestions settles
pageLoaded(s, resp) ==
    setSection([s EXCEPT !.backupQuestions = loadQuestions(@, resp),
                         !.fetching = FALSE],
               "setup-names")

DOMContentLoaded ==
    /\ fetching
    /\ \E r \in DOMAIN FetchResponses : Becomes(pageLoaded(G, FetchResponses[r]))

\* click on #addPlayerBtn, or Enter in #playerNameInput
AddPlayer ==
    /\ section = "setup-names"
    /\ \E value \in RawInputs :
         /\ trim(value) # << >> =>
                /\ Len(playerNames) < MaxPlayers
                /\ EntersInOrder(playerNames, trim(value))
         /\ Becomes(addPlayerFromInput(G, value))

\* click on the remove button of a listed player
RemovePlayer ==
    /\ section = "setup-names"
    /\ \E index \in 0..(Len(playerNames) - 1) : Becomes(removePlayerAt(G, index))

\* a Continue that lets an empty player list through
contBtnClick_NoCheck(s) == setSection(s, "setup-difficulty")

contBtnClick(s) ==
    IF Len(s.playerNames) < 1 THEN s ELSE setSection(s, "setup-difficulty")

Continue ==
    /\ section = "setup-names"
    /\ Becomes(contBtnClick(G))

\* the values of the difficulty radios
Difficulties == {"easy", "hard"}

\* the change listener of a difficulty radio
difficultyChange(s, value) == [s EXCEPT !.chosenDifficulty = value]

\* change of a difficulty radio
ChangeDifficulty ==
    /\ section = "setup-difficulty"
    /\ \E value \in Difficulties : Becomes(difficultyChange(G, value))

\* a Back that starts the setup over
backBtnClick_StartsOver(s) ==
    setSection([s EXCEPT !.playerNames = << >>, !.scores = << >>,
                         !.chosenDifficulty = "easy"],
               "setup-names")

backBtnClick(s) == setSection(s, "setup-names")

Back ==
    /\ section = "setup-difficulty"
    /\ Becomes(backBtnClick(G))

startBtnClick(s, js) ==
    showQuiz([applyDifficultyFilter(s, js) EXCEPT !.turnsEnded = 0, !.timedOut = 0])

StartGame ==
    /\ section = "setup-difficulty"
    /\ \E js \in RandomChoices(Len(filteredPool(backupQuestions, chosenDifficulty))) :
         Becomes(startBtnClick(G, js))

\* the option buttons the model clicks: the first and the last of the question shown
Clickable(questionObject) ==
    { questionObject.options[i] : i \in {1, Len(questionObject.options)} }

Answer ==
    /\ section = "quiz"
    /\ \E selected \in Clickable(backupQuestions[currentQuestion + 1]) :
         Becomes(onAnswer(G, selected))

\* one firing of a live interval
Tick ==
    /\ \E id \in intervals : Becomes(timerCallback(G))

\* a Play again that starts the same questions over without a reload
againBtnClick_Replay(s) ==
    showQuiz([s EXCEPT !.currentQuestion = 0, !.currentPlayer = 0,
                       !.scores = ZeroScores(Len(s.playerNames)),
                       !.answersLog = << >>, !.turnsEnded = 0])

\* a Play again that resets the variables in place and keeps the question list
againBtnClick_KeepsPool(s) ==
    [PageState(s.variant) EXCEPT !.backupQuestions = s.backupQuestions]

\* location.reload(): the page and its script start again
againBtnClick(s) == PageState(s.variant)

PlayAgain ==
    /\ section = "results"
    /\ Becomes(againBtnClick(G))

Next ==
    \/ DOMContentLoaded
    \/ AddPlayer
    \/ RemovePlayer
    \/ Continue
    \/ ChangeDifficulty
    \/ Back
    \/ StartGame
    \/ Answer
    \/ Tick
    \/ PlayAgain

Spec == Init /\ [][Next]_vars

\* setInterval(callback, 1000) runs the callback again and again until
\* clearInterval: a live interval that stays live fires
FairSpec == Spec /\ WF_vars(Tick)

-----------------------------------------------------------------------------
(* The session up to Start on every well-formed question set of up to        *)
(* MaxStore entries, and on the built-in set: loadQuestions,                 *)
(* applyDifficultyFilter and shuffleArray as functions of what was fetched.  *)

\* the difficulty tags a fetched entry can carry: none, empty, easy, hard, another
Tags == {Undefined, Str(""), Str("easy"), Str("hard"), Str("medium")}

TaggedEntry(d) == Entry(Str("Q"), Arr(<<"X", "Y">>), Str("X"), d)

\* the entry as loadQuestions stores it
TaggedQuestion(d) == MapEntry(TaggedEntry(d))

\* well-formed fetched arrays of one entry or more, equal entries allowed
FetchedArrays == UNION { [1..n -> {TaggedEntry(d) : d \in Tags}] : n \in 1..MaxStore }

\* what the fetch delivers: a well-formed array, an empty array, or no array
PoolResponses ==
    { [kind |-> "json", data |-> Arr(data)] : data \in FetchedArrays }
        \cup { [kind |-> "json", data |-> Arr(<< >>)], [kind |-> "json", data |-> Obj] }

\* DOMContentLoaded when the fetch delivers one of PoolResponses
PoolLoaded ==
    /\ fetching
    /\ \E resp \in PoolResponses : Becomes(pageLoaded(G, resp))

\* the session up to Start
PoolNext ==
    \/ PoolLoaded
    \/ AddPlayer
    \/ RemovePlayer
    \/ Continue
    \/ ChangeDifficulty
    \/ Back
    \/ StartGame

PoolSpec == Init /\ [][PoolNext]_vars

-----------------------------------------------------------------------------
(* Properties *)

NumPlayers == Len(playerNames)
NumQuestions == Len(backupQuestions)
Playing == section = "quiz"
Results == section = "results"

NameA == <<"A">>
NameB == <<"B">>

\* C1: a game of N players on a pool of M questions ends exactly N*M turns:
\* while Playing fewer than N*M turns have ended, and Results is reached with
\* exactly N*M turns ended, however answers and expiries interleave.
C1_ExactlyNMTurns ==
    /\ Playing => turnsEnded < NumPlayers * NumQuestions
    /\ Results => turnsEnded = NumPlayers * NumQuestions

\* a two-player game on three questions ended, three turns answered and three timed out
C1_Witness ==
    /\ Results /\ variant = "script"
    /\ NumPlayers = 2 /\ NumQuestions = 3
    /\ turnsEnded = 6 /\ Len(answersLog) = 3

\* C2: the k-th turn (from 0) is taken by player k mod N on question k div N;
\* at the end of the game the indices stand at player 0, question M.
C2_QuestionMajorOrder ==
    (Playing \/ Results) =>
        /\ NumPlayers >= 1
        /\ currentPlayer = turnsEnded % NumPlayers
        /\ currentQuestion = turnsEnded \div NumPlayers

\* the fourth turn of a two-player game: second player, second question
C2_Witness ==
    /\ Playing /\ NumPlayers = 2 /\ turnsEnded = 3
    /\ currentPlayer = 1 /\ currentQuestion = 1

\* the scores onAnswer must leave: one more for the current player on the right answer
ScoresAfterAnswer(selected) ==
    [i \in 1..Len(scores) |->
        IF i = currentPlayer + 1
           /\ selected = backupQuestions[currentQuestion + 1].answer
        THEN scores[i] + 1
        ELSE scores[i]]

\* the options of the question shown
OptionsShown ==
    { backupQuestions[currentQuestion + 1].options[i] :
        i \in DOMAIN backupQuestions[currentQuestion + 1].options }

\* C3: in every Playing state, onAnswer(selected) adds exactly 1 to the current
\* player's score when selected is the answer and changes no score otherwise;
\* and the game of [A, B] on one question answered X where A chose X and B chose Y
\* ends with scores 1 and 0.
C3_AnswerScoring ==
    /\ Playing =>
         \A selected \in OptionsShown :
             onAnswer(G, selected).scores = ScoresAfterAnswer(selected)
    /\ ( /\ Results /\ variant = "script"
         /\ playerNames = <<NameA, NameB>>
         /\ NumQuestions = 1 /\ backupQuestions[1].answer = "X"
         /\ Len(answersLog) = 2
         /\ answersLog[1].selectedAnswer = "X" /\ answersLog[2].selectedAnswer = "Y" )
       => scores = <<1, 0>>

\* the scenario of the specification has been played
C3_Witness ==
    /\ Results /\ variant = "script"
    /\ playerNames = <<NameA, NameB>>
    /\ NumQuestions = 1 /\ backupQuestions[1].answer = "X"
    /\ Len(answersLog) = 2
    /\ answersLog[1].selectedAnswer = "X" /\ answersLog[2].selectedAnswer = "Y"
    /\ scores = <<1, 0>>

\* the countdown: which intervals run, which one is held, and the seconds it has left
TimerState(s) ==
    [intervals |-> s.intervals,
     id |-> s.questionTimerId,
     left |-> IF s.questionTimerId # Null THEN s.questionTimeLeft ELSE 0]

\* a wrong option of the question shown
WrongOptions == { o \in OptionsShown : o # backupQuestions[currentQuestion + 1].answer }

\* C4: in every Playing state whose countdown is about to expire, the expiry
\* changes no score and leaves the same player, question, section and countdown
\* (live intervals, held id, seconds left, text shown) as a wrong answer given in
\* that state, which changes no score either.
C4_ExpiryLikeWrongAnswer ==
    (Playing /\ intervals # {} /\ questionTimeLeft = 1) =>
        LET expired == timerCallback(G) IN
        /\ expired.scores = scores
        /\ expired.turnsEnded = turnsEnded + 1
        /\ \A selected \in WrongOptions :
               LET answered == onAnswer(G, selected) IN
               /\ answered.scores = scores
               /\ expired.currentPlayer = answered.currentPlayer
               /\ expired.currentQuestion = answered.currentQuestion
               /\ expired.section = answered.section
               /\ TimerState(expired) = TimerState(answered)
               /\ expired.timerText = answered.timerText

\* a turn was ended by the countdown: nothing logged, nothing scored, the next player is up
C4_Witness ==
    /\ Playing /\ variant = "script" /\ NumPlayers = 2
    /\ turnsEnded = 1 /\ currentPlayer = 1 /\ answersLog = << >>
    /\ scores = <<0, 0>>
    /\ questionTimeLeft = EASY_MODE_TIMER_SECONDS

\* C5: at most one interval is live, and a live interval is the one the script
\* holds the id of: no cancelled or forgotten interval is left to tick.
C5_AtMostOneInterval ==
    /\ Cardinality(intervals) <= 1
    /\ intervals = IF questionTimerId = Null THEN {} ELSE {questionTimerId}

\* a later turn: earlier intervals were started and cancelled, one is live
C5_Witness ==
    /\ Playing /\ turnsEnded = 2 /\ nextIntervalId = 4
    /\ intervals = {3} /\ questionTimerId = 3

\* C6 as stated: 0 <= currentPlayer < playerNames.length and
\* 0 <= currentQuestion <= M in every state from page load onwards.
C6_AsStated ==
    /\ 0 <= currentPlayer /\ currentPlayer < NumPlayers
    /\ 0 <= currentQuestion /\ currentQuestion <= NumQuestions

\* C6 (amended): 0 <= currentQuestion <= M always; currentPlayer is 0 while no
\* player is listed and 0 <= currentPlayer < playerNames.length once one is.
C6_IndexRanges ==
    /\ 0 <= currentQuestion /\ currentQuestion <= NumQuestions
    /\ 0 <= currentPlayer
    /\ IF NumPlayers = 0 THEN currentPlayer = 0 ELSE currentPlayer < NumPlayers

\* the last player is up on the last question
C6_Witness ==
    /\ Playing /\ NumPlayers = 2 /\ NumQuestions = 3
    /\ currentPlayer = 1 /\ currentQuestion = 2

\* C7: the scores array is as long as the playerNames array in every state.
C7_ScoresParallel == Len(scores) = Len(playerNames)

\* two players listed and both have scored
C7_Witness ==
    /\ Playing /\ playerNames = <<NameA, NameB>>
    /\ Len(scores) = 2 /\ scores[1] = 2 /\ scores[2] = 1

\* C8: currentQuestion indexes an existing question in every state that is not
\* Results, and equals the pool length M exactly in Results.
C8_QuestionIndexInPool ==
    IF Results THEN currentQuestion = NumQuestions
               ELSE currentQuestion < NumQuestions

\* the game ended on a pool of two questions
C8_Witness ==
    /\ Results /\ NumQuestions = 2 /\ currentQuestion = 2 /\ NumPlayers = 2

\* every option of every question of the pool (the buttons last rendered among them)
AllOptions ==
    UNION { { backupQuestions[q].options[i] : i \in DOMAIN backupQuestions[q].options }
            : q \in DOMAIN backupQuestions }

\* C9: in Results no interval is live and none is held, so no tick can be
\* delivered; and onAnswer, were an option button still clicked, changes neither
\* scores nor currentPlayer nor currentQuestion.
C9_ResultsFrozen ==
    Results =>
        /\ intervals = {} /\ questionTimerId = Null
        /\ \A selected \in AllOptions :
               LET answered == onAnswer(G, selected) IN
               /\ answered.scores = scores
               /\ answered.currentPlayer = currentPlayer
               /\ answered.currentQuestion = currentQuestion

\* a game whose last turn was ended by the countdown
C9_Witness ==
    /\ Results /\ questionTimeLeft = 0 /\ intervals = {}
    /\ NumPlayers = 2 /\ scores = <<0, 1>>

\* C10: from every state of the difficulty step, Start (for every shuffle) enters
\* Playing with currentQuestion = 0, currentPlayer = 0 and all scores 0; and every
\* Playing state in which no turn has ended is such a state.
C10_StartResets ==
    /\ section = "setup-difficulty" =>
         \A js \in RandomChoices(Len(filteredPool(backupQuestions, chosenDifficulty))) :
             LET started == startBtnClick(G, js) IN
             /\ started.section = "quiz"
             /\ started.currentQuestion = 0
             /\ started.currentPlayer = 0
             /\ started.scores = ZeroScores(NumPlayers)
    /\ (Playing /\ turnsEnded = 0) =>
         /\ currentQuestion = 0
         /\ currentPlayer = 0
         /\ scores = ZeroScores(NumPlayers)

\* a one-player game just started in hard mode
C10_Witness ==
    /\ Playing /\ turnsEnded = 0 /\ chosenDifficulty = "hard"
    /\ playerNames = <<NameB>> /\ scores = <<0>>
    /\ currentQuestion = 0 /\ currentPlayer = 0

\* the steps of the session after the name step
PastSetup == section \in {"setup-difficulty", "quiz", "results"}

\* C11: Continue with no player listed changes nothing and leaves the name step
\* shown, and with a player listed it shows the difficulty step; so whenever the
\* difficulty step, the quiz or the results are shown at least one player is listed.
C11_ContinueNeedsPlayer ==
    /\ section = "setup-names" =>
         contBtnClick(G) = IF NumPlayers = 0 THEN G
                           ELSE [G EXCEPT !.section = "setup-difficulty"]
    /\ PastSetup => NumPlayers >= 1

\* back at the name step from the difficulty step (hard was chosen there), and
\* every player removed again
C11_Witness ==
    /\ section = "setup-names" /\ NumPlayers = 0 /\ chosenDifficulty = "hard"

\* what may be typed at the name step: RawInputs, two blanks, a name with a blank inside
NamesTyped == RawInputs \cup { <<" ", " ">>, <<" ", "A", " ", "B">> }

Blank(value) == \A i \in DOMAIN value : value[i] = " "

NotABlank(c) == c # " "

\* C12: at the name step, adding a name that is empty or only blanks leaves
\* playerNames, scores, currentPlayer, currentQuestion, chosenDifficulty and the
\* section as they were; any other name is appended after the players already
\* listed, without the blanks typed around it.
C12_AddPlayer ==
    section = "setup-names" =>
        \A value \in NamesTyped :
            LET added == addPlayerFromInput(G, value) IN
            IF Blank(value)
            THEN /\ added.playerNames = playerNames
                 /\ added.scores = scores
                 /\ added.currentPlayer = currentPlayer
                 /\ added.currentQuestion = currentQuestion
                 /\ added.chosenDifficulty = chosenDifficulty
                 /\ added.section = section
            ELSE LET name == added.playerNames[Len(added.playerNames)] IN
                 /\ Len(added.playerNames) = NumPlayers + 1
                 /\ SubSeq(added.playerNames, 1, NumPlayers) = playerNames
                 /\ name[1] # " " /\ name[Len(name)] # " "
                 /\ SelectSeq(name, NotABlank) = SelectSeq(value, NotABlank)
                 /\ added.section = section

\* B, typed with blanks around it, was added after A
C12_Witness ==
    /\ section = "setup-names"
    /\ playerNames = <<NameA, NameB>> /\ scores = <<0, 0>>

\* how often q occurs in arr
Count(arr, q) == Cardinality({ i \in DOMAIN arr : arr[i] = q })

\* the same questions, each as often
SameQuestions(a, b) ==
    /\ Len(a) = Len(b)
    /\ \A i \in DOMAIN a : Count(a, a[i]) = Count(b, a[i])

TaggedEasyOrUntagged(q) == q.difficulty \in {Undefined, Str(""), Str("easy")}

TaggedHard(q) == q.difficulty = Str("hard")

\* the pool Start plays on, for the random draws js
PoolOf(js) == applyDifficultyFilter(G, js).backupQuestions

\* C13 as stated: with easy the pool is exactly the questions tagged easy or
\* untagged; with hard exactly the questions tagged hard, or the full store when
\* none is tagged hard.
C13_AsStated ==
    section = "setup-difficulty" =>
        \A js \in RandomChoices(Len(filteredPool(backupQuestions, chosenDifficulty))) :
            LET easy == SelectSeq(backupQuestions, TaggedEasyOrUntagged)
                hard == SelectSeq(backupQuestions, TaggedHard)
            IN  IF chosenDifficulty = "easy"
                THEN SameQuestions(PoolOf(js), easy)
                ELSE SameQuestions(PoolOf(js), IF hard = << >> THEN backupQuestions ELSE hard)

\* C13 (amended): with easy the pool is exactly the questions tagged easy or
\* untagged, or the full store when there is none; with hard exactly the questions
\* tagged hard, or the full store when none is tagged hard.
C13_FilterPool ==
    section = "setup-difficulty" =>
        \A js \in RandomChoices(Len(filteredPool(backupQuestions, chosenDifficulty))) :
            LET easy == SelectSeq(backupQuestions, TaggedEasyOrUntagged)
                hard == SelectSeq(backupQuestions, TaggedHard)
            IN  IF chosenDifficulty = "easy"
                THEN SameQuestions(PoolOf(js), IF easy = << >> THEN backupQuestions ELSE easy)
                ELSE SameQuestions(PoolOf(js), IF hard = << >> THEN backupQuestions ELSE hard)

\* an easy game started on a store of a hard question and one tagged otherwise:
\* no question is easy or untagged, and the pool is the full store
C13_Witness ==
    /\ Playing /\ turnsEnded = 0 /\ chosenDifficulty = "easy"
    /\ NumQuestions = 2
    /\ SameQuestions(backupQuestions,
                     <<TaggedQuestion(Str("hard")), TaggedQuestion(Str("medium"))>>)

\* C14: the question store is never empty, whatever the fetch delivered; from
\* every state of the difficulty step Start, for every shuffle, enters the quiz on
\* at least one question; and every game played or ended has at least one question.
C14_PoolNeverEmpty ==
    /\ NumQuestions >= 1
    /\ section = "setup-difficulty" =>
         \A js \in RandomChoices(Len(filteredPool(backupQuestions, chosenDifficulty))) :
             LET started == startBtnClick(G, js) IN
             /\ Len(started.backupQuestions) >= 1
             /\ started.section = "quiz"

\* an easy game on a fetched set whose only question is tagged medium: the easy
\* filter selected nothing and the pool is the full store
C14_Witness ==
    /\ Playing /\ chosenDifficulty = "easy"
    /\ NumQuestions = 1 /\ backupQuestions[1].difficulty = Str("medium")

\* C15: for every store at the difficulty step and every sequence of random
\* draws j in 0..i, shuffleArray returns an array of the same length that holds
\* every question as often as the array it was given.
C15_ShufflePermutes ==
    section = "setup-difficulty" =>
        \A js \in RandomChoices(NumQuestions) :
            LET shuffled == shuffleArray(backupQuestions, js) IN
            /\ Len(shuffled) = NumQuestions
            /\ \A i \in DOMAIN backupQuestions :
                   Count(shuffled, backupQuestions[i]) =
                       Count(backupQuestions, backupQuestions[i])

\* a game started on a shuffled pool of three questions, two of them equal
C15_Witness ==
    /\ Playing /\ turnsEnded = 0 /\ chosenDifficulty = "easy"
    /\ backupQuestions = <<TaggedQuestion(Str("easy")), TaggedQuestion(Undefined),
                           TaggedQuestion(Str("easy"))>>

\* an entry without a string prompt, an options array or a string answer
LacksField(e) ==
    \/ e.questionItem.type # "string"
    \/ e.options.type # "array"
    \/ e.answer.type # "string"

\* the fetch failed, the status was not OK, the JSON was malformed, or an entry
\* of the array lacks a field
Rejected(resp) ==
    \/ resp.kind \in {"network_error", "not_ok", "bad_json"}
    \/ /\ resp.kind = "json" /\ resp.data.type = "array"
       /\ \E i \in DOMAIN resp.data.val : LacksField(resp.data.val[i])

\* the store holds a well-formed entry of an array that has an entry lacking a field
HoldsRejectedEntry(store) ==
    \E r \in DOMAIN FetchResponses :
        LET resp == FetchResponses[r] IN
        IF resp.kind = "json" /\ resp.data.type = "array" /\ Rejected(resp)
        THEN \E i \in DOMAIN resp.data.val, k \in DOMAIN store :
                 /\ ~LacksField(resp.data.val[i])
                 /\ store[k] = MapEntry(resp.data.val[i])
        ELSE FALSE

\* C16: while the page loads, every rejected fetch outcome (failure, status not
\* OK, malformed JSON, an array with an entry lacking a field) leaves the built-in
\* questions as the store and shows the name step; and at the name step the store
\* holds no entry of a rejected array.
C16_AllOrNothing ==
    /\ section = "loading" =>
         \A r \in DOMAIN FetchResponses :
             Rejected(FetchResponses[r]) =>
                 LET loaded == pageLoaded(G, FetchResponses[r]) IN
                 /\ loaded.backupQuestions = BuiltInQuestions
                 /\ loaded.section = "setup-names"
    /\ section = "setup-names" => ~HoldsRejectedEntry(backupQuestions)

\* the name step on the built-in questions: the fetch was refused
C16_Witness ==
    /\ section = "setup-names" /\ backupQuestions = BuiltInQuestions
    /\ NumPlayers = 1

\* the stores a page load can leave: the built-in set or a fetched set, unfiltered
UnfilteredStores ==
    { loadQuestions(BuiltInQuestions, FetchResponses[r]) : r \in DOMAIN FetchResponses }

\* C17: from every Results state Play again leaves the page as it is before its
\* load: no players, no scores, currentPlayer = 0, currentQuestion = 0,
\* chosenDifficulty = easy, no interval live or held, an empty answer history and
\* the built-in questions as the store; from that state the load shows the name
\* step with all of this unchanged but the store, which is the built-in set or the
\* fetched one, unfiltered; and whenever the name step is shown the store is such
\* an unfiltered set.
C17_PlayAgainResets ==
    /\ Results =>
         LET again == againBtnClick(G) IN
         /\ again.section = "loading"
         /\ again.playerNames = << >> /\ again.scores = << >>
         /\ again.currentPlayer = 0 /\ again.currentQuestion = 0
         /\ again.chosenDifficulty = "easy"
         /\ again.intervals = {} /\ again.questionTimerId = Null
         /\ again.answersLog = << >>
         /\ again.backupQuestions = BuiltInQuestions
    /\ section = "loading" =>
         /\ backupQuestions = BuiltInQuestions
         /\ \A r \in DOMAIN FetchResponses :
                LET setup == pageLoaded(G, FetchResponses[r]) IN
                /\ setup.section = "setup-names"
                /\ setup.playerNames = playerNames /\ setup.scores = scores
                /\ setup.currentPlayer = currentPlayer
                /\ setup.currentQuestion = currentQuestion
                /\ setup.chosenDifficulty = chosenDifficulty
                /\ setup.intervals = intervals
                /\ setup.questionTimerId = questionTimerId
                /\ setup.answersLog = answersLog
                /\ setup.backupQuestions \in UnfilteredStores
    /\ section = "setup-names" => backupQuestions \in UnfilteredStores

\* the results of a hard game of two players on the two hard built-in questions,
\* every answer logged: the state Play again starts from
C17_Witness ==
    /\ Results /\ variant = "script" /\ chosenDifficulty = "hard"
    /\ NumPlayers = 2 /\ NumQuestions = 2 /\ Len(answersLog) = 4
    /\ scores = <<2, 1>>

\* C18 as stated: in every state every question of the question list has its
\* answer among its own options, and in every Playing state some option shown is
\* the answer of the question shown.
C18_AsStated ==
    /\ \A q \in DOMAIN backupQuestions :
           \E i \in DOMAIN backupQuestions[q].options :
               backupQuestions[q].options[i] = backupQuestions[q].answer
    /\ Playing => backupQuestions[currentQuestion + 1].answer \in OptionsShown

\* the duration of a turn's countdown as the specification gives it
DurationStated ==
    CASE variant = "script"  -> IF chosenDifficulty = "hard" THEN 15 ELSE 10
      [] variant = "script1" -> 15
      [] variant = "script9" -> 12

Moves ==
    { <<"loading", "setup-names">>,
      <<"setup-names", "setup-difficulty">>,
      <<"setup-difficulty", "setup-names">>,
      <<"setup-difficulty", "quiz">>,
      <<"quiz", "results">>,
      <<"results", "loading">> }

\* C20: every step that changes the section shown is one of Moves; so the quiz is
\* entered from the difficulty step only, with no turn ended, it is left to the
\* results only, the results are left by the reload only, and the only steps
\* backwards are Back and Play again.
C20_SectionOrder ==
    [][ section' # section =>
            /\ <<section, section'>> \in Moves
            /\ section' = "quiz" => turnsEnded' = 0 /\ currentQuestion' = 0 ]_vars

\* back at the name step: hard was chosen at the difficulty step and both players
\* are still listed
C20_Witness ==
    /\ section = "setup-names" /\ chosenDifficulty = "hard" /\ NumPlayers = 2

\* script1.js and script9.js: the countdown is for hard games only
HardOnly == variant \in {"script1", "script9"}

\* C21: in an easy game of a hard-only script, while Playing and at Results, no
\* interval is live or held, none was started since the page was loaded, no tick
\* was delivered and no time is shown; so no tick can end a turn, and the turns
\* ended so far were all ended by answers.
C21_NoCountdownInEasy ==
    (HardOnly /\ chosenDifficulty = "easy" /\ (Playing \/ Results)) =>
        /\ intervals = {} /\ questionTimerId = Null
        /\ nextIntervalId = 1 /\ ticks = 0
        /\ timerText = << >>
        /\ ~ENABLED Tick

\* script1.js, easy, two players: three turns were answered, the fourth is open
C21_Witness ==
    /\ Playing /\ variant = "script1" /\ chosenDifficulty = "easy"
    /\ NumPlayers = 2 /\ turnsEnded = 3 /\ intervals = {}

\* C23: in script.js exactly one interval is live, the one held, while Playing,
\* and none is live or held in any other state; and every answer given while
\* Playing either ends the game or opens the next turn, the next player's on the
\* same question included, with one new interval and the full duration of the
\* chosen difficulty, whatever time the turn before had left.
C23_TimerIffPlaying ==
    variant = "script" =>
        /\ Playing => /\ Cardinality(intervals) = 1
                      /\ intervals = {questionTimerId}
        /\ ~Playing => intervals = {} /\ questionTimerId = Null
        /\ Playing =>
               \A selected \in OptionsShown :
                   LET answered == onAnswer(G, selected) IN
                   IF answered.section = "quiz"
                   THEN /\ answered.questionTimerId \notin intervals \cup {Null}
                        /\ answered.intervals = {answered.questionTimerId}
                        /\ answered.questionTimeLeft = DurationStated
                        /\ answered.timerText = <<DurationStated>>
                        /\ answered.ticks = 0
                   ELSE answered.section = "results" /\ answered.intervals = {}

\* script.js, easy: the second player's turn on the first question has just begun,
\* after the first player used part of the time: a second interval, ten seconds
C23_Witness ==
    /\ Playing /\ variant = "script" /\ chosenDifficulty = "easy"
    /\ currentPlayer = 1 /\ currentQuestion = 0 /\ Len(answersLog) = 1
    /\ intervals = {2} /\ questionTimeLeft = 10 /\ ticks = 0

\* the entries of the history that credit player p (counted from 0)
CorrectEntries(p) ==
    { i \in DOMAIN answersLog :
        answersLog[i].playerIndex = p /\ answersLog[i].isCorrect }

\* C24: in script.js every answer given while Playing appends exactly one entry,
\* with the answering player's index, the question number currentQuestion + 1,
\* the option selected and whether it is the answer, and a firing of the interval
\* appends none; in every state each player's score is the number of entries
\* that name the player and are marked correct; and at Results the history has
\* N*M entries less the turns the countdown ended.
C24_AnswersLog ==
    variant = "script" =>
        /\ Playing =>
               /\ \A selected \in OptionsShown :
                      LET log == onAnswer(G, selected).answersLog
                          entry == log[Len(log)]
                      IN  /\ Len(log) = Len(answersLog) + 1
                          /\ SubSeq(log, 1, Len(answersLog)) = answersLog
                          /\ entry.playerIndex = currentPlayer
                          /\ entry.questionNumber = currentQuestion + 1
                          /\ entry.selectedAnswer = selected
                          /\ entry.isCorrect =
                                 (selected = backupQuestions[currentQuestion + 1].answer)
               /\ timerCallback(G).answersLog = answersLog
        /\ \A p \in 1..NumPlayers : scores[p] = Cardinality(CorrectEntries(p - 1))
        /\ Results => Len(answersLog) = NumPlayers * NumQuestions - timedOut

\* script.js: the results of two players on two questions; one turn timed out,
\* three were answered, all three correctly
C24_Witness ==
    /\ Results /\ variant = "script" /\ NumPlayers = 2 /\ NumQuestions = 2
    /\ timedOut = 1 /\ Len(answersLog) = 3 /\ scores = <<1, 2>>

\* the turns player p (counted from 0) has completed in the game being played
TurnsCompleted(p) == currentQuestion + (IF p < currentPlayer THEN 1 ELSE 0)

\* C25: in every state every score is at least 0; while Playing the score of
\* player p is at most currentQuestion, plus 1 if p < currentPlayer; at Results it
\* is at most M; and before a game is started every score is 0.
C25_ScoreBounds ==
    \A p \in 0..(NumPlayers - 1) :
        /\ scores[p + 1] \in Nat
        /\ Playing => scores[p + 1] <= TurnsCompleted(p)
        /\ Results => scores[p + 1] <= NumQuestions
        /\ ~(Playing \/ Results) => scores[p + 1] = 0

\* second question, second player's turn: the first player answered twice and the
\* second once, all correctly
C25_Witness ==
    /\ Playing /\ NumPlayers = 2 /\ currentQuestion = 1 /\ currentPlayer = 1
    /\ scores = <<2, 1>>

\* C26: while the fetch is under way no event has been handled: the page is as
\* the script's evaluation left it, with the built-in questions, no player, no
\* score, difficulty easy, no answer logged and no interval; and whenever the
\* name step, the difficulty step, the quiz or the results are shown no fetch is
\* under way, so none can settle and replace the store.
C26_HandlersAfterLoad ==
    /\ fetching =>
         /\ section = "loading"
         /\ backupQuestions = BuiltInQuestions
         /\ playerNames = << >> /\ scores = << >>
         /\ currentPlayer = 0 /\ currentQuestion = 0
         /\ chosenDifficulty = "easy"
         /\ answersLog = << >> /\ intervals = {} /\ turnsEnded = 0
    /\ section \in {"setup-names", "setup-difficulty", "quiz", "results"} =>
         /\ ~fetching
         /\ ~ENABLED DOMContentLoaded

\* two players play the hard question of a fetched set, the fetch long settled
C26_Witness ==
    /\ Playing /\ ~fetching /\ NumPlayers = 2 /\ turnsEnded = 1
    /\ NumQuestions = 1 /\ backupQuestions[1].questionItem = "Q2"

\* the questions of the built-in set
BuiltIn == { BuiltInQuestions[i] : i \in DOMAIN BuiltInQuestions }

\* the store is the fetched array: as many entries, in the same order, each with
\* its prompt, options and answer, and its tag, or no tag if the tag is falsy
IsFetchedList(store, data) ==
    /\ Len(store) = Len(data)
    /\ \A i \in DOMAIN data :
           /\ store[i].questionItem = data[i].questionItem.val
           /\ store[i].options = data[i].options.val
           /\ store[i].answer = data[i].answer.val
           /\ store[i].difficulty =
                  IF data[i].difficulty \in {Undefined, Str("")}
                  THEN Undefined
                  ELSE data[i].difficulty
           /\ store[i] \notin BuiltIn

\* C27: while the fetch is under way, for every well-formed array of one entry
\* or more that it can deliver, the store after the load is that array, entry by
\* entry in the same order, falsy tags made absent, and holds no built-in
\* question; for an empty array and for a value that is no array the store after
\* the load is the built-in set. And at the name step the store is the built-in
\* set or holds no built-in question.
C27_LoadedList ==
    /\ fetching =>
         \A resp \in PoolResponses :
             LET store == pageLoaded(G, resp).backupQuestions IN
             IF resp.data.type = "array" /\ resp.data.val # << >>
             THEN IsFetchedList(store, resp.data.val)
             ELSE store = BuiltInQuestions
    /\ section = "setup-names" =>
         \/ backupQuestions = BuiltInQuestions
         \/ \A i \in DOMAIN backupQuestions : backupQuestions[i] \notin BuiltIn

\* the name step on a fetched list of three: a hard question, one whose empty or
\* missing tag is absent now, and one tagged medium
C27_Witness ==
    /\ section = "setup-names" /\ NumPlayers = 0
    /\ backupQuestions = <<TaggedQuestion(Str("hard")), TaggedQuestion(Str("")),
                           TaggedQuestion(Str("medium"))>>
    /\ backupQuestions[2].difficulty = Undefined

\* every score of s is 0, one score per player
AllZero(s) ==
    /\ Len(s.scores) = Len(s.playerNames)
    /\ \A p \in DOMAIN s.scores : s.scores[p] = 0

\* t has the turn, the question number, the difficulty and the store of now
SameGameFields(t) ==
    /\ t.currentPlayer = currentPlayer
    /\ t.currentQuestion = currentQuestion
    /\ t.chosenDifficulty = chosenDifficulty
    /\ t.backupQuestions = backupQuestions

C29_BackAndChoice ==
    section = "setup-difficulty" =>
        /\ LET t == backBtnClick(G) IN
            /\ t.section = "setup-names"
            /\ t.playerNames = playerNames
            /\ t.scores = scores
            /\ t.chosenDifficulty = chosenDifficulty
            /\ t.backupQuestions = backupQuestions
        /\ \A value \in Difficulties :
               LET t == difficultyChange(G, value) IN
               /\ t.chosenDifficulty = value
               /\ \A f \in DOMAIN G \ {"chosenDifficulty"} : t[f] = G[f]

\* the name step after hard was chosen and Back was clicked: one player, on the
\* built-in store
C29_Witness ==
    /\ section = "setup-names" /\ chosenDifficulty = "hard"
    /\ playerNames = <<NameB>> /\ scores = <<0>>
    /\ backupQuestions = BuiltInQuestions

\* C30: at Results the scoreboard has one line per player, in turn order; line
\* i gives the name and the score of player i, and its last word is "point" if
\* that score is 1 and "points" if it is anything else, 0 included.
C30_Scoreboard ==
    Results =>
        /\ Len(scoreboard) = NumPlayers
        /\ \A i \in DOMAIN scoreboard :
               /\ scoreboard[i].name = playerNames[i]
               /\ scoreboard[i].score = scores[i]
               /\ scoreboard[i].word = IF scores[i] = 1 THEN "point" ELSE "points"

\* results of two players and two questions: "A: 1 point", "B: 0 points"
C30_Witness ==
    /\ Results /\ playerNames = <<NameA, NameB>> /\ scores = <<1, 0>>
    /\ scoreboard = <<[name |-> NameA, score |-> 1, word |-> "point"],
                      [name |-> NameB, score |-> 0, word |-> "points"]>>

\* results where a player has 2: "A: 2 points"
C30_WitnessPlural ==
    /\ Results /\ scores = <<2>>
    /\ scoreboard = <<[name |-> NameA, score |-> 2, word |-> "points"]>>

C22_WitnessMixed ==
    /\ Results /\ variant = "script9" /\ chosenDifficulty = "hard"
    /\ scores = <<1, 0>> /\ timedOut = 1 /\ turnsEnded = 2

\* C31: while an interval is live it is the one held, and the seconds left are
\* an integer from 1 to D, D being the duration of the variant and difficulty,
\* and are the number shown; whatever number the timer text shows, in any
\* state, is from 1 to D; and the tick delivered at one second left removes
\* the live interval and ends the turn.
C31_TimeLeftRange ==
    /\ intervals # {} =>
           /\ intervals = {questionTimerId}
           /\ questionTimeLeft \in 1..DurationStated
           /\ timerText = <<questionTimeLeft>>
    /\ timerText # << >> => timerText[1] \in 1..DurationStated
    /\ (intervals # {} /\ questionTimeLeft = 1) =>
           LET fired == timerCallback(G) IN
           /\ questionTimerId \notin fired.intervals
           /\ fired.turnsEnded = turnsEnded + 1
           /\ fired.timedOut = timedOut + 1

\* the last second of a hard turn of script.js: 14 ticks delivered, "1s" shown
C31_Witness ==
    /\ Playing /\ variant = "script" /\ chosenDifficulty = "hard"
    /\ intervals = {questionTimerId} /\ questionTimeLeft = 1
    /\ ticks = HARD_MODE_TIMER_SECONDS - 1 /\ timerText = <<1>>

\* results after the last turn timed out: the variable is at 0, no interval is
\* live and the text still shows "1s"
C31_WitnessExpired ==
    /\ Results /\ timedOut >= 1 /\ questionTimeLeft = 0
    /\ intervals = {} /\ questionTimerId = Null /\ timerText = <<1>>

====
